---- MODULE Spec2Model ----
(***************************************************************************)
(* The SNN branch predictor of src/cpu/pred/snn.cc: a direct-mapped table  *)
(* of perceptron-like neurons over per-thread global history registers,    *)
(* with the prediction tokens (BPHistory) that carry the snapshots used    *)
(* for training and for rollback.                                          *)
(*                                                                         *)
(* The pipeline that calls the predictor is not part of snn.cc.  It keeps, *)
(* for every prediction in flight, the thread and the branch address       *)
(* together with the token, and resolves the token with that thread and    *)
(* that address; an unconditional branch is always resolved as taken.      *)
(* The fields tid and pc of a token record are that bookkeeping.           *)
(***************************************************************************)
EXTENDS Integers, FiniteSets, Sequences, TLC

VARIABLES params, globalHistory, table, tokens, predictionID, nUncond,
          last, fault

vars == <<params, globalHistory, table, tokens, predictionID, nUncond,
          last, fault>>

(***************************************************************************)
(* Bounds of the model.                                                    *)
(***************************************************************************)
\* predictions made in one run: lookup and uncondBranch calls together, and
\* so also the tokens that can be in flight at once
MaxPred == 2
\* outcomes processed in one run in which every prediction is resolved
\* before the next one is made
MaxSerial == 4

(***************************************************************************)
(* SNNParams.  Each record is one construction of the predictor.           *)
(***************************************************************************)
Config(ts, nt, d, s, n, lh, cb, at) ==
    [tableSize |-> ts, numThreads |-> nt, denseGlobalHistoryLen |-> d,
     sparseGHSegLen |-> s, sparseGHNSegs |-> n, localHistoryLen |-> lh,
     ctrBits |-> cb, activeTerm |-> at]

Configs ==
    { Config(2, 1, 0, 1, 2, 1, 2, 1),    \* two neurons; windows 0 and 1 cycle
      Config(1, 1, 0, 2, 1, 2, 2, 1),    \* one window of two bits
      Config(1, 1, 1, 1, 2, 1, 2, 2) }   \* denseLen >= segLen, slot in range

\* a construction whose first reselection indexes sparseSegs past its end
ConfigsPastEnd ==
    { Config(1, 1, 1, 1, 1, 1, 2, 1) }

\* constructions with one sparse segment of two positions and a reselection
\* every second fit, the window starting at bit 0 or behind one dense bit
ConfigsSerial ==
    { Config(1, 1, 0, 2, 1, 1, 3, 2), Config(2, 1, 1, 2, 1, 1, 3, 2) }

\* a construction with two hardware threads sharing the table
ConfigsThreads ==
    { Config(1, 2, 0, 1, 1, 1, 2, 1) }

\* the construction of the end-to-end scenario: table size 4, one thread,
\* dense length 4, one sparse segment of length 2, activeTerm 2, 6-bit counters
ConfigsScenario ==
    { Config(4, 1, 4, 2, 1, 1, 6, 2) }

\* branch addresses the pipeline presents
Addrs == {16, 22}

denseGHLen == params.denseGlobalHistoryLen
sparseGHSegLen == params.sparseGHSegLen
sparseGHNSegs == params.sparseGHNSegs
activeTerm == params.activeTerm
tableSize == params.tableSize
globalHistoryLen == denseGHLen + sparseGHNSegs * sparseGHSegLen
Threads == 0 .. params.numThreads - 1
TableIdx == 0 .. tableSize - 1
Slots == 1 .. MaxPred

InvalidTableIndex == -1
InvalidPredictionID == -1

(***************************************************************************)
(* boost::dynamic_bitset: bit i of a register is h[i], bit 0 the newest.   *)
(***************************************************************************)
ZeroBits(n) == [i \in 0 .. n - 1 |-> FALSE]

\* operator<<= by one: every bit moves up, the top bit is lost, bit 0 clears
ShiftLeft(h) == [i \in DOMAIN h |-> IF i = 0 THEN FALSE ELSE h[i - 1]]

\* h[0] = v
SetBit0(h, v) == [i \in DOMAIN h |-> IF i = 0 THEN v ELSE h[i]]

\* ghr[p]; a read past the end of the register yields oob
ReadBit(h, p, oob) == IF p \in DOMAIN h THEN h[p] ELSE oob

(***************************************************************************)
(* SignedSatCounter (declared in snn.hh): a signed value clamped to        *)
(* [-2^(bits-1), 2^(bits-1)-1].                                            *)
(***************************************************************************)
CtrMin == -(2 ^ (params.ctrBits - 1))
CtrMax == 2 ^ (params.ctrBits - 1) - 1
ctrAdd(v, d) ==
    IF v + d > CtrMax THEN CtrMax ELSE IF v + d < CtrMin THEN CtrMin ELSE v + d
ctrIncrement(v) == ctrAdd(v, 1)
ctrDecrement(v) == ctrAdd(v, -1)
ctrReset == 0

\* 1 -> 1; 0 -> -1
b2s(taken) == IF taken THEN 1 ELSE -1

abs(x) == IF x < 0 THEN -x ELSE x

RECURSIVE SumTo(_, _)
SumTo(f, n) == IF n = 0 THEN 0 ELSE f[n - 1] + SumTo(f, n - 1)

(***************************************************************************)
(* SNN::Neuron                                                             *)
(***************************************************************************)
SparseSeg(valid, ptr, weight) == [valid |-> valid, ptr |-> ptr, weight |-> weight]

\* the constructor: all counters 0, no segment valid, the window at denseGHLen
Neuron ==
    [localHistory  |-> ZeroBits(params.localHistoryLen),
     denseWeights  |-> [i \in 0 .. denseGHLen |-> 0],
     activeStart   |-> denseGHLen,
     activeWeights |-> [i \in 0 .. sparseGHSegLen - 1 |-> 0],
     activeTime    |-> 0,
     sparseSegs    |-> [i \in 0 .. sparseGHNSegs - 1 |-> SparseSeg(FALSE, 0, 0)],
     theta         |-> (193 * (denseGHLen + sparseGHSegLen) + 1400) \div 100]

\* the bias is denseWeights.back()
bias(n) == n.denseWeights[denseGHLen]

\* predict: bias + dense window + active window + every sparse segment,
\* valid or not
predict(n, ghr, oob) ==
    LET dense == [i \in 0 .. denseGHLen - 1 |->
                    b2s(ReadBit(ghr, i, oob)) * n.denseWeights[i]]
        active == [i \in 0 .. sparseGHSegLen - 1 |->
                    b2s(ReadBit(ghr, n.activeStart + i, oob)) * n.activeWeights[i]]
        sparse == [i \in 0 .. sparseGHNSegs - 1 |->
                    b2s(ReadBit(ghr, n.sparseSegs[i].ptr, oob))
                        * n.sparseSegs[i].weight]
    IN  bias(n) + SumTo(dense, denseGHLen) + SumTo(active, sparseGHSegLen)
            + SumTo(sparse, sparseGHNSegs)

\* a predict that clears the active-window weights it has summed
afterPredict_clearsWindow(n, ghr) ==
    [n EXCEPT !.activeWeights = [i \in 0 .. sparseGHSegLen - 1 |-> ctrReset]]

\* the neuron after a call of predict: lines 159-179 read the weights and
\* the register and assign to no member
afterPredict(n, ghr) == n

\* predict and fit read ghr[activeStart + i] for i < sparseGHSegLen
readsPastHistory(n) == n.activeStart + sparseGHSegLen > globalHistoryLen

\* the slot fit indexes sparseSegs with at a reselection
segSlot(n) == n.activeStart \div sparseGHSegLen

slotPastSegs(n) == segSlot(n) >= sparseGHNSegs

\* the early return of fit
fitSkips(n, tok, taken) ==
    taken = tok.predTaken /\ abs(tok.predictionValue) > n.theta

\* fitWeights with the valid mask of line 209 left out
fitWeights_unmasked(n, ghr, taken, oob) ==
    [n EXCEPT
       !.denseWeights = [i \in 0 .. denseGHLen |->
            IF i = denseGHLen
            THEN (IF taken THEN ctrIncrement(@[i]) ELSE ctrDecrement(@[i]))
            ELSE ctrAdd(@[i], b2s(taken) * b2s(ReadBit(ghr, i, oob)))],
       !.sparseSegs = [i \in 0 .. sparseGHNSegs - 1 |->
            [@[i] EXCEPT !.weight =
                ctrAdd(@, b2s(taken) * b2s(ReadBit(ghr, n.sparseSegs[i].ptr, oob)))]],
       !.activeWeights = [i \in 0 .. sparseGHSegLen - 1 |->
            ctrAdd(@[i], b2s(taken) * b2s(ReadBit(ghr, n.activeStart + i, oob)))]]

\* lines 194-214: bias, dense weights, sparse segments (masked by valid),
\* active window, all from the history in the token
fitWeights(n, ghr, taken, oob) ==
    [n EXCEPT
       !.denseWeights = [i \in 0 .. denseGHLen |->
            IF i = denseGHLen
            THEN (IF taken THEN ctrIncrement(@[i]) ELSE ctrDecrement(@[i]))
            ELSE ctrAdd(@[i], b2s(taken) * b2s(ReadBit(ghr, i, oob)))],
       !.sparseSegs = [i \in 0 .. sparseGHNSegs - 1 |->
            [@[i] EXCEPT !.weight =
                ctrAdd(@, b2s(taken) * b2s(ReadBit(ghr, n.sparseSegs[i].ptr, oob))
                            * (IF n.sparseSegs[i].valid THEN 1 ELSE 0))]],
       !.activeWeights = [i \in 0 .. sparseGHSegLen - 1 |->
            ctrAdd(@[i], b2s(taken) * b2s(ReadBit(ghr, n.activeStart + i, oob)))]]

\* lines 219-227: the first index of the largest |activeWeights[i]|
RECURSIVE scanMax(_, _, _, _)
scanMax(aw, i, max, max_index) ==
    IF i >= sparseGHSegLen THEN max_index
    ELSE IF abs(aw[i]) > max THEN scanMax(aw, i + 1, abs(aw[i]), i)
    ELSE scanMax(aw, i + 1, max, max_index)

maxIndex(aw) == scanMax(aw, 0, abs(aw[0]), 0)

\* updateSeg that reassigns a valid segment even when its position is kept
updateSeg_alwaysReassigns(seg, max_index, w) ==
    IF ~seg.valid
    THEN SparseSeg(TRUE, max_index, ctrAdd(seg.weight, w))
    ELSE SparseSeg(TRUE, max_index, ctrAdd(ctrReset, w))

\* updateSeg that adds to the weight of the replaced position
updateSeg_accumulates(seg, max_index, w) ==
    IF ~seg.valid
    THEN SparseSeg(TRUE, max_index, ctrAdd(seg.weight, w))
    ELSE IF seg.ptr = max_index THEN seg
    ELSE SparseSeg(TRUE, max_index, ctrAdd(seg.weight, w))

\* lines 228-242 on the segment the slot refers to
updateSeg(seg, max_index, w) ==
    IF ~seg.valid
    THEN SparseSeg(TRUE, max_index, ctrAdd(seg.weight, w))
    ELSE IF seg.ptr = max_index THEN seg
    ELSE SparseSeg(TRUE, max_index, ctrAdd(ctrReset, w))

\* lines 244-248
nextActiveStart(n) ==
    IF segSlot(n) # sparseGHNSegs - 1
    THEN n.activeStart + sparseGHSegLen
    ELSE denseGHLen

\* lines 216-253.  When the slot is past the end of sparseSegs the segment
\* read and written is whatever lies behind the vector: its valid flag reads
\* garbageValid and what is written there is not part of the neuron.
reselect(n, garbageValid) ==
    LET m == maxIndex(n.activeWeights)
        w == n.activeWeights[m]
        inRange == ~slotPastSegs(n)
        wasValid == IF inRange THEN n.sparseSegs[segSlot(n)].valid
                    ELSE garbageValid
    IN  [n EXCEPT
           !.activeTime = 0,
           !.sparseSegs = IF inRange
                          THEN [@ EXCEPT ![segSlot(n)] = updateSeg(@, m, w)]
                          ELSE @,
           !.theta = IF wasValid THEN @ ELSE @ + 2,
           !.activeStart = nextActiveStart(n),
           !.activeWeights = [i \in 0 .. sparseGHSegLen - 1 |-> ctrReset]]

\* does this fit reach the reselection
fitReselects(n, tok, taken) ==
    ~fitSkips(n, tok, taken) /\ n.activeTime + 1 >= activeTerm

\* fit with a strict comparison of activeTime with activeTerm
fit_reselectsLate(n, tok, taken, oob, garbageValid) ==
    IF fitSkips(n, tok, taken) THEN n
    ELSE LET n1 == fitWeights(n, tok.globalHistory, taken, oob)
             n2 == [n1 EXCEPT !.activeTime = @ + 1]
         IN  IF n2.activeTime > activeTerm
             THEN reselect(n2, garbageValid)
             ELSE n2


\* fit without the early return of lines 185-188
fit_noSkip(n, tok, taken, oob, garbageValid) ==
    LET n1 == fitWeights(n, tok.globalHistory, taken, oob)
        n2 == [n1 EXCEPT !.activeTime = @ + 1]
    IN  IF n2.activeTime >= activeTerm
        THEN reselect(n2, garbageValid)
        ELSE n2

\* SNN::Neuron::fit
fit(n, tok, taken, oob, garbageValid) ==
    IF fitSkips(n, tok, taken) THEN n
    ELSE LET n1 == fitWeights(n, tok.globalHistory, taken, oob)
             n2 == [n1 EXCEPT !.activeTime = @ + 1]
         IN  IF n2.activeTime >= activeTerm
             THEN reselect(n2, garbageValid)
             ELSE n2

(***************************************************************************)
(* BPHistory, the prediction token.  tokens[s] is the object in heap slot  *)
(* s; live is FALSE once it is deleted.                                    *)
(***************************************************************************)
BPHistory(gh, lh, index, predTaken, id, value, tid, pc) ==
    [live |-> TRUE, globalHistory |-> gh, localHistory |-> lh,
     tableIndex |-> index, predTaken |-> predTaken, predictionID |-> id,
     predictionValue |-> value, tid |-> tid, pc |-> pc]

NullToken ==
    [live |-> FALSE, globalHistory |-> ZeroBits(0), localHistory |-> ZeroBits(0),
     tableIndex |-> InvalidTableIndex, predTaken |-> FALSE,
     predictionID |-> InvalidPredictionID, predictionValue |-> 0,
     tid |-> 0, pc |-> 0]

emptyLocalHistory == ZeroBits(1)

\* new: the first free slot
newSlot == CHOOSE s \in Slots : ~tokens[s].live /\ \A r \in Slots : r < s => tokens[r].live

heapFull == \A s \in Slots : tokens[s].live

LiveSlots == {s \in Slots : tokens[s].live}

\* what the last call was: its name, its arguments, the heap slot and the
\* tableIndex of the token it was given or produced, and what fit did
Call(op, tid, pc, taken, squashed, slot, index, fitDid) ==
    [op |-> op, tid |-> tid, pc |-> pc, taken |-> taken, squashed |-> squashed,
     slot |-> slot, index |-> index, fit |-> fitDid]

(***************************************************************************)
(* SNN                                                                     *)
(***************************************************************************)
computeIndex(addr) == (addr \div 4) % tableSize

\* updateGHR that shifts the register of every thread
updateGHR_everyThread(gh, tid, taken) ==
    [t \in DOMAIN gh |-> SetBit0(ShiftLeft(gh[t]), taken)]


\* updateGHR: shift, then bit 0 := taken
updateGHR(gh, tid, taken) ==
    [gh EXCEPT ![tid] = SetBit0(ShiftLeft(@), taken)]

\* lookupTaken with a strict comparison
lookupTaken_strict(prediction_val) == prediction_val > 0

\* the direction lookup returns for a score
lookupTaken(prediction_val) == prediction_val >= 0

\* the token lookup builds, before it shifts the history
lookupToken(tid, branch_addr, oob) ==
    LET index == computeIndex(branch_addr)
        ghr == globalHistory[tid]
        entry == table[index]
        prediction_val == predict(entry, ghr, oob)
    IN  BPHistory(ghr, entry.localHistory, index, lookupTaken(prediction_val),
                  predictionID, prediction_val, tid, branch_addr)

\* the values a read past the end of the history may yield in this call
OobReads(n) == IF readsPastHistory(n) THEN BOOLEAN ELSE {FALSE}

\* the values the valid flag behind the end of sparseSegs may read as
GarbageReads(n) == IF slotPastSegs(n) THEN BOOLEAN ELSE {FALSE}

InitOf(configs) ==
    /\ params \in configs
    /\ globalHistory = [t \in Threads |-> ZeroBits(globalHistoryLen)]
    /\ table = [i \in TableIdx |-> Neuron]
    /\ tokens = [s \in Slots |-> NullToken]
    /\ predictionID = 0
    /\ nUncond = 0
    /\ last = Call("init", 0, 0, FALSE, FALSE, 0, InvalidTableIndex, "none")
    /\ fault = FALSE

Init == InitOf(Configs)

\* bool SNN::lookup(tid, branch_addr, bp_history), while fewer than limit
\* predictions have been made
LookupWithin(limit, tid, branch_addr) ==
    /\ predictionID + nUncond < limit
    /\ ~heapFull
    /\ \E oob \in OobReads(table[computeIndex(branch_addr)]) :
         LET tok == lookupToken(tid, branch_addr, oob)
         IN  /\ tokens' = [tokens EXCEPT ![newSlot] = tok]
             /\ globalHistory' = updateGHR(globalHistory, tid, tok.predTaken)
             /\ last' = Call("lookup", tid, branch_addr, tok.predTaken,
                             FALSE, newSlot, tok.tableIndex, "none")
    /\ predictionID' = predictionID + 1
    /\ fault' = (fault \/ readsPastHistory(table[computeIndex(branch_addr)]))
    /\ table' = [table EXCEPT ![computeIndex(branch_addr)] =
                    afterPredict(@, globalHistory[tid])]
    /\ UNCHANGED <<params, nUncond>>

Lookup(tid, branch_addr) == LookupWithin(MaxPred, tid, branch_addr)

\* the token uncondBranch builds
uncondToken(tid, pc) ==
    BPHistory(globalHistory[tid], emptyLocalHistory, InvalidTableIndex,
              TRUE, InvalidPredictionID, table[0].theta + 1, tid, pc)

\* void SNN::uncondBranch(tid, pc, bp_history)
UncondBranch(tid, pc) ==
    /\ predictionID + nUncond < MaxPred
    /\ ~heapFull
    /\ tokens' = [tokens EXCEPT ![newSlot] = uncondToken(tid, pc)]
    /\ globalHistory' = updateGHR(globalHistory, tid, TRUE)
    /\ nUncond' = nUncond + 1
    /\ last' = Call("uncondBranch", tid, pc, TRUE, FALSE, newSlot,
                    InvalidTableIndex, "none")
    /\ UNCHANGED <<params, table, predictionID, fault>>

\* void SNN::btbUpdate(tid, branch_addr, bp_history)
BtbUpdate(tid, branch_addr) ==
    /\ globalHistory' = [globalHistory EXCEPT ![tid] = SetBit0(@, FALSE)]
    /\ table' = [table EXCEPT ![computeIndex(branch_addr)].localHistory =
                                    SetBit0(@, FALSE)]
    /\ last' = Call("btbUpdate", tid, branch_addr, FALSE, FALSE, 0,
                    InvalidTableIndex, "none")
    /\ UNCHANGED <<params, tokens, predictionID, nUncond, fault>>

\* squashGlobal that leaves the speculative history in place
squashGlobal_keep(gh, tid, history) == gh

\* squash: the histories it writes
squashGlobal(gh, tid, history) == [gh EXCEPT ![tid] = history.globalHistory]

squashLocal(tbl, history) ==
    IF history.tableIndex # InvalidTableIndex
    THEN [tbl EXCEPT ![history.tableIndex].localHistory = history.localHistory]
    ELSE tbl

\* delete that frees nothing
delete_leak(heap, s) == heap

\* delete history
delete(heap, s) == [heap EXCEPT ![s] = NullToken]

\* void SNN::squash(tid, bp_history)
Squash(s) ==
    /\ tokens[s].live
    /\ LET history == tokens[s]
       IN  /\ globalHistory' = squashGlobal(globalHistory, history.tid, history)
           /\ table' = squashLocal(table, history)
           /\ last' = Call("squash", history.tid, history.pc, FALSE, FALSE, s,
                           history.tableIndex, "none")
    /\ tokens' = delete(tokens, s)
    /\ UNCHANGED <<params, predictionID, nUncond, fault>>

\* updateSquashedGlobal that shifts the current history, not the snapshot
updateSquashedGlobal_current(gh, tid, history, taken) ==
    [gh EXCEPT ![tid] = SetBit0(ShiftLeft(@), taken)]

\* update with squashed: the histories it writes (lines 110-115); entry is
\* the neuron at computeIndex(branch_addr)
updateSquashedGlobal(gh, tid, history, taken) ==
    [gh EXCEPT ![tid] = SetBit0(ShiftLeft(history.globalHistory), taken)]

updateSquashedLocal(tbl, index, history, taken) ==
    IF history.tableIndex # InvalidTableIndex
    THEN [tbl EXCEPT ![index].localHistory =
                        SetBit0(ShiftLeft(history.localHistory), taken)]
    ELSE tbl

\* the heap after update: the squashed path returns before delete history
updateHeap(heap, s, squashed) == IF squashed THEN heap ELSE delete(heap, s)

\* updateTable that trains on the history register as it stands at the update
updateTable_currentHistory(tbl, index, history, taken, squashed, oob, garbageValid) ==
    IF squashed
    THEN updateSquashedLocal(tbl, index, history, taken)
    ELSE [tbl EXCEPT ![index] =
            fit(@, [history EXCEPT !.globalHistory = globalHistory[history.tid]],
                taken, oob, garbageValid)]

\* updateTable whose normal path shifts the local history of the token's
\* neuron as the squashed path does
updateTable_commitShiftsLocal(tbl, index, history, taken, squashed, oob, garbageValid) ==
    LET t1 == IF history.tableIndex # InvalidTableIndex
              THEN [tbl EXCEPT ![history.tableIndex].localHistory =
                        SetBit0(ShiftLeft(history.localHistory), taken)]
              ELSE tbl
    IN  IF squashed
        THEN updateSquashedLocal(tbl, index, history, taken)
        ELSE [t1 EXCEPT ![index] =
                afterPredict(fit(@, history, taken, oob, garbageValid),
                             history.globalHistory)]


\* updateTable that trains on the squashed path too
updateTable_trains(tbl, index, history, taken, squashed, oob, garbageValid) ==
    LET t1 == IF history.tableIndex # InvalidTableIndex
              THEN [tbl EXCEPT ![index].localHistory =
                        SetBit0(ShiftLeft(history.localHistory), taken)]
              ELSE tbl
    IN  [t1 EXCEPT ![index] = fit(@, history, taken, oob, garbageValid)]

\* the table after update: only the normal path trains, and it calls predict
\* on the trained neuron
updateTable(tbl, index, history, taken, squashed, oob, garbageValid) ==
    IF squashed
    THEN updateSquashedLocal(tbl, index, history, taken)
    ELSE [tbl EXCEPT ![index] =
            afterPredict(fit(@, history, taken, oob, garbageValid),
                         history.globalHistory)]

\* which branch of fit a call takes
fitKind(n, tok, taken, garbageValid) ==
    IF fitSkips(n, tok, taken) THEN "skipped"
    ELSE IF ~fitReselects(n, tok, taken) THEN "trained"
    ELSE IF slotPastSegs(n) THEN "pastSegs"
    ELSE IF ~n.sparseSegs[segSlot(n)].valid THEN "promoted"
    ELSE IF n.sparseSegs[segSlot(n)].ptr
              = maxIndex(fitWeights(n, tok.globalHistory, taken, FALSE).activeWeights)
         THEN "stable"
    ELSE "churned"

\* the outcomes the pipeline may report for a token: an unconditional
\* branch is taken
Outcomes(history) ==
    IF history.tableIndex = InvalidTableIndex THEN {TRUE} ELSE BOOLEAN

\* void SNN::update(tid, branch_addr, taken, bp_history, squashed)
Update(s, taken, squashed) ==
    /\ tokens[s].live
    /\ taken \in Outcomes(tokens[s])
    /\ LET history == tokens[s]
           tid == history.tid
           index == computeIndex(history.pc)
           entry == table[index]
           trains == ~squashed /\ ~fitSkips(entry, history, taken)
           resel == ~squashed /\ fitReselects(entry, history, taken)
       IN  /\ \E oob \in (IF trains THEN OobReads(entry) ELSE {FALSE}),
                 garbageValid \in (IF resel THEN GarbageReads(entry) ELSE {FALSE}) :
                 /\ table' = updateTable(table, index, history, taken, squashed,
                                         oob, garbageValid)
                 /\ last' = Call("update", tid, history.pc, taken, squashed, s,
                                 history.tableIndex,
                                 IF squashed THEN "none"
                                 ELSE fitKind(entry, history, taken, garbageValid))
           /\ globalHistory' =
                 IF squashed
                 THEN updateSquashedGlobal(globalHistory, tid, history, taken)
                 ELSE globalHistory
           \* fit, and the predict that follows it, index the history and
           \* sparseSegs
           /\ fault' = (fault
                        \/ (trains /\ readsPastHistory(entry))
                        \/ (resel /\ slotPastSegs(entry))
                        \/ (~squashed /\ readsPastHistory(table'[index])))
    /\ tokens' = updateHeap(tokens, s, squashed)
    /\ UNCHANGED <<params, predictionID, nUncond>>

Next ==
    \/ \E tid \in Threads, branch_addr \in Addrs : Lookup(tid, branch_addr)
    \/ \E tid \in Threads, pc \in Addrs : UncondBranch(tid, pc)
    \/ \E tid \in Threads, branch_addr \in Addrs : BtbUpdate(tid, branch_addr)
    \/ \E s \in Slots : Squash(s)
    \/ \E s \in Slots, taken \in BOOLEAN, squashed \in BOOLEAN :
           Update(s, taken, squashed)

Spec == Init /\ [][Next]_vars

InitPastEnd == InitOf(ConfigsPastEnd)

SpecPastEnd == InitPastEnd /\ [][Next]_vars

(***************************************************************************)
(* The pipeline of the end-to-end scenario: each prediction is followed    *)
(* immediately by its update with squashed = false.                        *)
(***************************************************************************)
SerialLookup(tid, branch_addr) ==
    /\ LiveSlots = {}
    /\ LookupWithin(MaxSerial, tid, branch_addr)

SerialUpdate(s, taken) == Update(s, taken, FALSE)

NextSerial ==
    \/ \E tid \in Threads, branch_addr \in Addrs : SerialLookup(tid, branch_addr)
    \/ \E s \in Slots, taken \in BOOLEAN : SerialUpdate(s, taken)

InitThreads == InitOf(ConfigsThreads)

SpecThreads == InitThreads /\ [][Next]_vars

InitSerial == InitOf(ConfigsSerial)

SpecSerial == InitSerial /\ [][NextSerial]_vars

InitScenario == InitOf(ConfigsScenario)

SpecScenario == InitScenario /\ [][NextSerial]_vars

TypeOK ==
    /\ predictionID \in 0 .. (MaxPred + MaxSerial)
    /\ nUncond \in 0 .. MaxPred
    /\ fault \in BOOLEAN
    /\ \A i \in TableIdx :
         /\ \A j \in DOMAIN table[i].denseWeights :
              table[i].denseWeights[j] \in CtrMin .. CtrMax
         /\ table[i].activeTime \in 0 .. activeTerm - 1

(***************************************************************************)
(* What the claims speak of.                                               *)
(***************************************************************************)
\* a register after shift(b): bit 0 is b, bit i is the old bit i-1
Shifted(h, b) == [i \in DOMAIN h |-> IF i = 0 THEN b ELSE h[i - 1]]

\* everything fit can train: the neuron without its local history
trainingState(n) == [n EXCEPT !.localHistory = ZeroBits(0)]

\* the last call was update on the normal-commit path / on the squashed path
commitCall(c) == c.op = "update" /\ ~c.squashed
squashedUpdateCall(c) == c.op = "update" /\ c.squashed

\* C1: squash(tid, token) leaves globalHistory[tid] equal to the snapshot in
\* the token and, when the token carries a table index, the local history of
\* that neuron equal to the token's local snapshot, without a shift.
C1_SquashRestoresSnapshots ==
    [][last'.op = "squash" =>
         LET history == tokens[last'.slot]
         IN  /\ globalHistory'[last'.tid] = history.globalHistory
             /\ history.tableIndex # InvalidTableIndex =>
                    table'[history.tableIndex].localHistory = history.localHistory
      ]_vars

\* a lookup token was squashed after a second prediction had been made, and
\* the history put back is not the all-zero history of a fresh predictor
C1_Witness ==
    /\ last.op = "squash"
    /\ last.index # InvalidTableIndex
    /\ predictionID + nUncond >= 2
    /\ \E i \in DOMAIN globalHistory[last.tid] : globalHistory[last.tid][i]

C3_SquashedUpdateReshifts ==
    [][squashedUpdateCall(last') =>
         LET history == tokens[last'.slot]
         IN  /\ globalHistory'[last'.tid] =
                    Shifted(history.globalHistory, last'.taken)
             /\ history.tableIndex # InvalidTableIndex =>
                    table'[history.tableIndex].localHistory =
                        Shifted(history.localHistory, last'.taken)
      ]_vars

\* the squashed update was for a lookup token older than another prediction
\* still in flight on the same thread
C3_Witness ==
    /\ squashedUpdateCall(last)
    /\ last.index # InvalidTableIndex
    /\ \E s \in LiveSlots :
         /\ s # last.slot
         /\ tokens[s].tid = last.tid
         /\ tokens[s].predictionID > tokens[last.slot].predictionID

\* C4: lookup returns taken exactly when the score of neuron
\* (addr >> 2) mod tableSize over the current history is >= 0; its token holds
\* the history from before the call, that index, the direction and the score;
\* afterwards the history is the old one shifted with bit 0 the direction.
C4_LookupPredictsAndShifts ==
    [][last'.op = "lookup" =>
         LET tid == last'.tid
             index == (last'.pc \div 4) % params.tableSize
             tok == tokens'[last'.slot]
             scores == {predict(table[index], globalHistory[tid], o) :
                           o \in OobReads(table[index])}
         IN  /\ tok.live
             /\ tok.predictionValue \in scores
             /\ last'.taken = (tok.predictionValue >= 0)
             /\ tok.predTaken = last'.taken
             /\ tok.tableIndex = index
             /\ tok.globalHistory = globalHistory[tid]
             /\ globalHistory'[tid] = Shifted(globalHistory[tid], last'.taken)
      ]_vars

\* a lookup predicted not taken over a history that has an older bit set
C4_Witness ==
    /\ last.op = "lookup"
    /\ ~last.taken
    /\ \E i \in DOMAIN globalHistory[last.tid] :
         i > 0 /\ globalHistory[last.tid][i]

\* C5: when fit is called with actualTaken equal to the token's direction
\* and |score| > theta, nothing in the neuron changes.
C5_SkippedFitChangesNothing ==
    [][commitCall(last') =>
         LET history == tokens[last'.slot]
             index == computeIndex(last'.pc)
         IN  (/\ last'.taken = history.predTaken
              /\ abs(history.predictionValue) > table[index].theta)
                 => table'[index] = table[index]
      ]_vars

\* a commit took the early return of fit
C5_Witness == commitCall(last) /\ last.fit = "skipped"

\* C6: squash and update with squashed=true change no weight, theta,
\* activeStart, activeTime or segment of any neuron.
C6_RollbackTrainsNothing ==
    [][(last'.op = "squash" \/ squashedUpdateCall(last')) =>
         \A i \in TableIdx : trainingState(table'[i]) = trainingState(table[i])
      ]_vars

\* a misprediction of a lookup was repaired by a squashed update
C6_Witness ==
    /\ squashedUpdateCall(last)
    /\ last.index # InvalidTableIndex
    /\ last.taken # tokens[last.slot].predTaken

\* the lowest active-window index whose |weight| is largest
dominantIndex(aw) ==
    CHOOSE m \in DOMAIN aw :
        /\ \A i \in DOMAIN aw : abs(aw[i]) <= abs(aw[m])
        /\ \A i \in DOMAIN aw : i < m => abs(aw[i]) < abs(aw[m])

\* the active-window weights a fit holds when it reaches the reselection
weightsAtReselection(n, history, taken) ==
    fitWeights(n, history.globalHistory, taken, FALSE).activeWeights

\* C7: when a reselection finds its target segment invalid, after fit the
\* segment is valid, its weight is what active_weights[m] was, its position
\* is the absolute history index activeStart + m (activeStart from before it
\* is advanced) and theta is 2 greater; m is the lowest index of the largest
\* |active weight|.
C7_PromotionTakesAbsolutePosition ==
    [][(commitCall(last') /\ last'.fit = "promoted") =>
         LET index == computeIndex(last'.pc)
             n == table[index]
             aw == weightsAtReselection(n, tokens[last'.slot], last'.taken)
             m == dominantIndex(aw)
             target == table'[index].sparseSegs[n.activeStart \div sparseGHSegLen]
         IN  /\ target.valid
             /\ target.weight = aw[m]
             /\ target.ptr = n.activeStart + m
             /\ table'[index].theta = n.theta + 2
      ]_vars

\* the window a neuron probes: activeStart = denseLen + j*segLen, 0 <= j < nSegs
windowOf(n) ==
    IF /\ n.activeStart >= denseGHLen
       /\ (n.activeStart - denseGHLen) % sparseGHSegLen = 0
       /\ (n.activeStart - denseGHLen) \div sparseGHSegLen < sparseGHNSegs
    THEN (n.activeStart - denseGHLen) \div sparseGHSegLen
    ELSE -1

\* C8: in every state every neuron's activeStart is denseLen + j*segLen for
\* some 0 <= j < nSegs; each reselection moves it to the next window and
\* wraps to denseLen after the last of the nSegs windows.
C8_ActiveStartCyclesWindows ==
    [][/\ \A i \in TableIdx : windowOf(table'[i]) # -1
       /\ (commitCall(last') /\ last'.fit \notin {"none", "skipped", "trained"}) =>
            LET index == computeIndex(last'.pc)
            IN  windowOf(table'[index])
                    = (windowOf(table[index]) + 1) % sparseGHNSegs
      ]_vars

\* C9: the weight of every invalid sparse segment reads 0 in every state, so
\* the term predict adds for it is 0 for either value of the history bit.
C9_InvalidSegmentWeighsNothing ==
    \A i \in TableIdx : \A j \in DOMAIN table[i].sparseSegs :
        ~table[i].sparseSegs[j].valid =>
            /\ table[i].sparseSegs[j].weight = 0
            /\ \A bit \in BOOLEAN : b2s(bit) * table[i].sparseSegs[j].weight = 0

\* a fit has trained a neuron (its bias moved) that still has an invalid
\* segment
C9_Witness ==
    /\ commitCall(last)
    /\ last.fit \in {"trained", "promoted", "pastSegs"}
    /\ \E j \in DOMAIN table[computeIndex(last.pc)].sparseSegs :
         ~table[computeIndex(last.pc)].sparseSegs[j].valid

\* C10: uncondBranch returns a token with no table index and direction
\* taken and shifts a 1 into the history; resolving that token with
\* update(squashed=false, taken=true) changes no weight, theta, activeStart,
\* activeTime or segment of any neuron.
C10_UncondBranchNeverTrains ==
    [][/\ last'.op = "uncondBranch" =>
            /\ tokens'[last'.slot].tableIndex = InvalidTableIndex
            /\ tokens'[last'.slot].predTaken
            /\ globalHistory'[last'.tid] = Shifted(globalHistory[last'.tid], TRUE)
       /\ (commitCall(last') /\ tokens[last'.slot].tableIndex = InvalidTableIndex
               /\ last'.taken) =>
            \A i \in TableIdx : trainingState(table'[i]) = trainingState(table[i])
      ]_vars

\* the scenario so far: address 0x10 predicted and updated as taken, twice
afterTwoTakenAt0x10 ==
    /\ predictionID = 2
    /\ LiveSlots = {}
    /\ commitCall(last) /\ last.pc = 16 /\ last.taken
    /\ bias(table[computeIndex(16)]) = 2

\* C11: in the end-to-end scenario, after the second outcome is processed
\* the reselection has promoted the best active-window index into
\* segments[0], which is valid, and theta is its initial value plus 2.
C11_ScenarioPromotesSegmentZero ==
    afterTwoTakenAt0x10 =>
        /\ table[computeIndex(16)].sparseSegs[0].valid
        /\ table[computeIndex(16)].theta = Neuron.theta + 2

\* a value brought into the range of a signed counter of ctrBits bits
clampToCounter(v) ==
    LET top == 2 ^ (params.ctrBits - 1) - 1
        bottom == -(2 ^ (params.ctrBits - 1))
    IN  IF v > top THEN top ELSE IF v < bottom THEN bottom ELSE v

\* C12: a fit that is not skipped trains from the token's history snapshot:
\* the bias moves by one towards the outcome and dense weight i moves by
\* sign(outcome) * sign(bit i of the snapshot), each clamped to the counter
\* range, whatever the thread's history register holds at the update.
C12_FitTrainsFromSnapshot ==
    [][commitCall(last') =>
         LET history == tokens[last'.slot]
             index == computeIndex(last'.pc)
             n == table[index]
             t == IF last'.taken THEN 1 ELSE -1
             x(i) == IF history.globalHistory[i] THEN 1 ELSE -1
         IN  ~(/\ last'.taken = history.predTaken
               /\ abs(history.predictionValue) > n.theta)
                =>
                /\ bias(table'[index]) = clampToCounter(bias(n) + t)
                /\ \A i \in 0 .. denseGHLen - 1 :
                      table'[index].denseWeights[i]
                          = clampToCounter(n.denseWeights[i] + t * x(i))
      ]_vars

\* a trained dense weight disagrees with the newest bit of the register as it
\* stands after the update, and that weight is at the end of the counter range
C12_Witness ==
    /\ commitCall(last) /\ last.fit # "skipped" /\ last.taken
    /\ denseGHLen >= 1
    /\ table[last.index].denseWeights[0] = CtrMin
    /\ bias(table[last.index]) = 0
    /\ globalHistory[last.tid][0]

\* a commit whose fit is not skipped and reaches the reselection
reselectingCall(c, n, history) ==
    /\ commitCall(c)
    /\ ~(/\ c.taken = history.predTaken
         /\ abs(history.predictionValue) > n.theta)
    /\ n.activeTime + 1 >= activeTerm

\* the weight of a valid segment after the training steps of a fit
trainedSegWeight(seg, history, taken) ==
    clampToCounter(seg.weight
        + (IF taken THEN 1 ELSE -1)
            * (IF history.globalHistory[seg.ptr] THEN 1 ELSE -1))

\* C13: when a reselection finds its target segment valid with its stored
\* position equal to the newly selected maximum index m, the segment's
\* weight and position after fit are what the training steps left: the
\* weight is neither reset nor overwritten, and theta does not change.
C13_StableSegmentKeepsWeight ==
    [][LET history == tokens[last'.slot]
           index == computeIndex(last'.pc)
           n == table[index]
           slot == n.activeStart \div sparseGHSegLen
           m == dominantIndex(weightsAtReselection(n, history, last'.taken))
       IN  (/\ reselectingCall(last', n, history)
            /\ slot < sparseGHNSegs
            /\ n.sparseSegs[slot].valid
            /\ n.sparseSegs[slot].ptr = m)
               =>
               /\ table'[index].sparseSegs[slot].valid
               /\ table'[index].sparseSegs[slot].ptr = n.sparseSegs[slot].ptr
               /\ table'[index].sparseSegs[slot].weight
                     = trainedSegWeight(n.sparseSegs[slot], history, last'.taken)
               /\ table'[index].theta = n.theta
      ]_vars

\* a reselection has kept a segment whose weight carries training
C13_Witness ==
    /\ commitCall(last) /\ last.fit = "stable"
    /\ \E j \in 0 .. sparseGHNSegs - 1 :
          /\ table[last.index].sparseSegs[j].valid
          /\ table[last.index].sparseSegs[j].weight # 0

\* C18: when a reselection finds its target segment valid with a stored
\* position different from the newly selected maximum index m, after fit the
\* segment's position is m, its weight is exactly what active_weights[m] was
\* at the reselection (the weight it had is discarded), it is still valid
\* and theta is unchanged.
C18_ChurnReplacesWeight ==
    [][LET history == tokens[last'.slot]
           index == computeIndex(last'.pc)
           n == table[index]
           slot == n.activeStart \div sparseGHSegLen
           aw == weightsAtReselection(n, history, last'.taken)
           m == dominantIndex(aw)
       IN  (/\ reselectingCall(last', n, history)
            /\ slot < sparseGHNSegs
            /\ n.sparseSegs[slot].valid
            /\ n.sparseSegs[slot].ptr # m)
               =>
               /\ table'[index].sparseSegs[slot].valid
               /\ table'[index].sparseSegs[slot].ptr = m
               /\ table'[index].sparseSegs[slot].weight = aw[m]
               /\ table'[index].theta = n.theta
      ]_vars

\* a reselection has moved a segment to another position of its window
C18_Witness ==
    /\ commitCall(last) /\ last.fit = "churned"
    /\ \E j \in 0 .. sparseGHNSegs - 1 :
          /\ table[last.index].sparseSegs[j].valid
          /\ table[last.index].theta = Neuron.theta + 2

C15_NoAccessOutOfRange == ~fault

\* the valid segments of a neuron
validSegs(n) == {j \in 0 .. sparseGHNSegs - 1 : n.sparseSegs[j].valid}

\* C16: for every neuron theta is its initial value plus 2 for each valid
\* segment of that neuron, a valid segment never becomes invalid again, and
\* so theta never decreases and grows by at most 2 * nSegs.
C16_ThetaCountsValidSegments ==
    [][\A i \in TableIdx :
          /\ table'[i].theta = Neuron.theta + 2 * Cardinality(validSegs(table'[i]))
          /\ validSegs(table[i]) \subseteq validSegs(table'[i])
          /\ table'[i].theta >= table[i].theta
          /\ table'[i].theta <= Neuron.theta + 2 * sparseGHNSegs
      ]_vars

\* what a reselection may change besides the active window: the cursor, the
\* threshold, and which positions the segments hold
selection(n) ==
    [activeStart |-> n.activeStart, theta |-> n.theta,
     segs |-> [j \in 0 .. sparseGHNSegs - 1 |->
                 <<n.sparseSegs[j].valid, n.sparseSegs[j].ptr>>]]

\* C17: activeTime of every neuron is in [0, activeTerm) between operations;
\* a fit that is not skipped advances it by one and a skipped fit leaves it;
\* the reselection runs on exactly every activeTerm-th non-skipped fit, and
\* right after it activeTime is 0 and every active-window weight reads 0.
C17_ReselectionCadence ==
    [][/\ \A i \in TableIdx : table'[i].activeTime \in 0 .. activeTerm - 1
       /\ commitCall(last') =>
            LET history == tokens[last'.slot]
                index == computeIndex(last'.pc)
                n == table[index]
                skipped == /\ last'.taken = history.predTaken
                           /\ abs(history.predictionValue) > n.theta
            IN  IF skipped
                THEN table'[index].activeTime = n.activeTime
                ELSE IF n.activeTime + 1 = activeTerm
                THEN /\ last'.fit \in {"promoted", "stable", "churned", "pastSegs"}
                     /\ table'[index].activeTime = 0
                     /\ \A k \in 0 .. sparseGHSegLen - 1 :
                           table'[index].activeWeights[k] = 0
                ELSE /\ last'.fit = "trained"
                     /\ table'[index].activeTime = n.activeTime + 1
                     /\ selection(table'[index]) = selection(n)
      ]_vars

\* with activeTerm = 2, the second fit of a neuron has reselected and
\* promoted a segment
C17_Witness ==
    /\ activeTerm = 2
    /\ commitCall(last) /\ last.fit = "promoted"
    /\ table[last.index].activeTime = 0
    /\ validSegs(table[last.index]) # {}

\* C19: update with squashed = false changes at most the neuron at index
\* (branch address >> 2) mod tableSize: every other neuron, the local
\* history of every neuron, and the global history of every thread, that
\* of the call's thread included, are what they were.
C19_CommitTouchesOneNeuron ==
    [][commitCall(last') =>
         /\ \A i \in TableIdx :
               i # (last'.pc \div 4) % tableSize => table'[i] = table[i]
         /\ \A i \in TableIdx : table'[i].localHistory = table[i].localHistory
         /\ \A t \in Threads : globalHistory'[t] = globalHistory[t]
      ]_vars

\* a commit has trained one neuron of a table of two while the other one
\* holds training of its own
C19_Witness ==
    /\ commitCall(last) /\ last.fit # "skipped"
    /\ tableSize = 2
    /\ \A i \in TableIdx : bias(table[i]) # 0

\* C20: no call made for thread t (lookup, uncondBranch, btbUpdate, squash,
\* update either way) changes the global history of another thread u.
C20_ThreadsKeepTheirHistory ==
    [][\A u \in Threads : u # last'.tid => globalHistory'[u] = globalHistory[u]]_vars

\* thread 1 has made a call while the history of thread 0 holds a taken
\* branch, and the two registers differ
C20_Witness ==
    /\ params.numThreads = 2
    /\ last.op # "init" /\ last.tid = 1
    /\ globalHistory[0][0]
    /\ globalHistory[1] # globalHistory[0]

====
